---- MODULE Spec2Model ----
(***************************************************************************)
(* Model of scripts/parse_matrix_config.py: the level organizer            *)
(* (organize_by_levels), the placeholder substitution                      *)
(* (replace_branch_placeholder) and the driver (main).                     *)
(*                                                                         *)
(* Representation of Python values.  A str is a sequence of one-character  *)
(* strings ("o/n" is <<"o", "/", "n">>, "" is <<>>).  None is the one      *)
(* sequence that is not a str.  A job dict is a function from its keys to  *)
(* their values; an absent key is a key outside the DOMAIN.  Where the     *)
(* code asks for the type of a value (isinstance), the value is a record   *)
(* that carries its type: see "Configuration values".                      *)
(***************************************************************************)
EXTENDS Integers, Sequences, FiniteSets, TLC

VARIABLES
    \* calls of organize_by_levels
    config_items, base_image_tag, repo_filter, result, unfiltered,
    \* calls of replace_branch_placeholder
    obj, branch_name, once, twice,
    \* a run of main (job_levels is its variable levels)
    pc, yaml_file, args, data, job_levels, level_idx, files, stdout, stderr,
    raised, exit_status

organize_vars == <<config_items, base_image_tag, repo_filter, result, unfiltered>>

replace_vars == <<obj, branch_name, once, twice>>

main_vars ==
    <<pc, yaml_file, args, data, job_levels, level_idx, files, stdout, stderr,
      raised, exit_status>>

vars == <<organize_vars, replace_vars, main_vars>>

\* the variables of the calls a specification does not make
Idle == <<"idle">>

OrganizeIdle ==
    /\ config_items = Idle
    /\ base_image_tag = Idle
    /\ repo_filter = Idle
    /\ result = Idle
    /\ unfiltered = Idle

ReplaceIdle ==
    /\ obj = Idle
    /\ branch_name = Idle
    /\ once = Idle
    /\ twice = Idle

MainIdle ==
    /\ pc = Idle
    /\ yaml_file = Idle
    /\ args = Idle
    /\ data = Idle
    /\ job_levels = Idle
    /\ level_idx = Idle
    /\ files = Idle
    /\ stdout = Idle
    /\ stderr = Idle
    /\ raised = Idle
    /\ exit_status = Idle

None == <<"None">>

\* Greatest number of jobs in an input tree.
MaxJobs == 3

----------------------------------------------------------------------------
(* Python built-ins used by the script *)

\* dict.get(k): the value, or None when the key is absent
Get(d, k) == IF k \in DOMAIN d THEN d[k] ELSE None

\* truth value of an Optional[str]: None and "" are false
Truthy(v) == v # None /\ v # <<>>

\* d[k] = v on a copy of d
SetItem(d, k, v) == [x \in DOMAIN d \cup {k} |-> IF x = k THEN v ELSE d[x]]

IsPrefix(p, s) == Len(p) <= Len(s) /\ SubSeq(s, 1, Len(p)) = p

\* str.replace(old, new) for a non-empty old: occurrences are found left to
\* right and do not overlap; the text put in is not scanned again
RECURSIVE str_replace(_, _, _)
str_replace(s, old, new) ==
    IF s = <<>> THEN <<>>
    ELSE IF IsPrefix(old, s)
         THEN new \o str_replace(SubSeq(s, Len(old) + 1, Len(s)), old, new)
         ELSE <<Head(s)>> \o str_replace(Tail(s), old, new)

SetMax(S) == CHOOSE m \in S : \A x \in S : x <= m

----------------------------------------------------------------------------
(* organize_by_levels *)

\* line 73
matches(job, filter) == filter = None \/ Get(job, "repo") = filter

\* faulty variant: every dependent job is included, whatever its ancestors
include_dependents_always(include, matched) == TRUE

\* line 80, fourth argument of the recursive call
include_dependents(include, matched) == include \/ matched

\* faulty variant: only an included job hands its image down
image_of_included(job, include, matched) ==
    IF include \/ matched THEN Get(job, "image") ELSE None

\* line 80, third argument of the recursive call
image_for_dependents(job, include, matched) == Get(job, "image")

\* line 87
strip_dependent_jobs(job) == [k \in DOMAIN job \ {"dependent_jobs"} |-> job[k]]

\* faulty variant: the '/' of the parent image are kept
base_image_value_raw(parent_image, tag) ==
    IF Truthy(tag) THEN parent_image \o <<"-", "-">> \o tag ELSE parent_image

\* lines 91-95: the value stored under base_image
base_image_value(parent_image, tag) ==
    LET normalized == str_replace(parent_image, <<"/">>, <<"_">>)
    IN  IF Truthy(tag) THEN normalized \o <<"-", "-">> \o tag ELSE normalized

\* lines 87-95
make_job_copy(job, parent_image, tag) ==
    LET job_copy == strip_dependent_jobs(job)
    IN  IF Truthy(parent_image)
        THEN SetItem(job_copy, "base_image", base_image_value(parent_image, tag))
        ELSE job_copy

\* faulty variant: levels[level] = [job_copy]
levels_overwrite(levels, level, job_copy) ==
    [l \in DOMAIN levels \cup {level} |->
        IF l = level THEN <<job_copy>> ELSE levels[l]]

\* faulty variant: levels[level].insert(0, job_copy)
levels_prepend(levels, level, job_copy) ==
    IF level \in DOMAIN levels
    THEN [levels EXCEPT ![level] = <<job_copy>> \o @]
    ELSE [l \in DOMAIN levels \cup {level} |->
             IF l = level THEN <<job_copy>> ELSE levels[l]]

\* line 97: levels is a defaultdict(list)
levels_append(levels, level, job_copy) ==
    IF level \in DOMAIN levels
    THEN [levels EXCEPT ![level] = Append(@, job_copy)]
    ELSE [l \in DOMAIN levels \cup {level} |->
             IF l = level THEN <<job_copy>> ELSE levels[l]]

\* faulty variant: a job with a matching descendant is emitted too
is_emitted_upward(matched, include, has_matching_descendant) ==
    matched \/ include \/ has_matching_descendant

\* line 86
is_emitted(matched, include, has_matching_descendant) == matched \/ include

\* faulty variant: range(len(levels)) in place of range(max_level + 1)
levels_to_list_by_count(levels) ==
    [i \in 1..Cardinality(DOMAIN levels) |->
        IF (i - 1) \in DOMAIN levels THEN levels[i - 1] ELSE <<>>]

\* faulty variant: [levels[i] for i in sorted(levels)], the empty levels skipped
levels_to_list_populated(levels) ==
    LET RECURSIVE ascending(_)
        ascending(keys) ==
            IF keys = {} THEN <<>>
            ELSE LET least == CHOOSE k \in keys : \A x \in keys : k <= x
                 IN  <<levels[least]>> \o ascending(keys \ {least})
    IN  ascending(DOMAIN levels)

\* lines 107-108; list index i is element i + 1 of the sequence
levels_to_list(levels) ==
    LET max_level == IF DOMAIN levels # {} THEN SetMax(DOMAIN levels) ELSE 0
    IN  [i \in 1..(max_level + 1) |->
            IF (i - 1) \in DOMAIN levels THEN levels[i - 1] ELSE <<>>]

RECURSIVE find_and_process_matching_jobs(_, _, _, _, _, _, _)
RECURSIVE process_dependent_jobs(_, _, _, _, _, _, _, _)

\* lines 78-82: the loop over job["dependent_jobs"], from index i on;
\* acc carries has_matching_descendant and the levels built so far
process_dependent_jobs(jobs, i, level, parent_image, include, acc, tag, filter) ==
    IF i > Len(jobs) THEN acc
    ELSE LET r == find_and_process_matching_jobs(
                      jobs[i], level, parent_image, include, acc.levels, tag, filter)
         IN  process_dependent_jobs(
                 jobs, i + 1, level, parent_image, include,
                 [has_matching_descendant |-> acc.has_matching_descendant \/ r.ret,
                  levels |-> r.levels],
                 tag, filter)

\* lines 57-100; returns the return value and the levels after the call
find_and_process_matching_jobs(job, level, parent_image, include, levels, tag, filter) ==
    LET matched == matches(job, filter)
        start == [has_matching_descendant |-> FALSE, levels |-> levels]
        after == IF "dependent_jobs" \in DOMAIN job
                 THEN process_dependent_jobs(
                          job["dependent_jobs"], 1, level + 1,
                          image_for_dependents(job, include, matched),
                          include_dependents(include, matched),
                          start, tag, filter)
                 ELSE start
    IN  IF is_emitted(matched, include, after.has_matching_descendant)
        THEN [ret |-> TRUE,
              levels |-> levels_append(after.levels, level,
                                       make_job_copy(job, parent_image, tag))]
        ELSE [ret |-> after.has_matching_descendant, levels |-> after.levels]

\* lines 103-104: the loop over the top-level jobs, from index i on
RECURSIVE process_top_level(_, _, _, _, _)
process_top_level(items, i, levels, tag, filter) ==
    IF i > Len(items) THEN levels
    ELSE process_top_level(
             items, i + 1,
             find_and_process_matching_jobs(
                 items[i], 0, None, FALSE, levels, tag, filter).levels,
             tag, filter)

\* lines 39-108
organize_by_levels(items, tag, filter) ==
    levels_to_list(process_top_level(items, 1, <<>>, tag, filter))

----------------------------------------------------------------------------
(* Inputs of organize_by_levels *)

\* repo and image of a job: present or absent, image possibly empty or
\* containing '/'; a job may carry a base_image of its own, and a job
\* without dependent jobs an empty list
JobFields ==
    { [repo |-> <<"a">>, image |-> <<"o", "/", "n">>],
      [repo |-> <<"b">>, image |-> <<"m">>],
      [repo |-> <<"b">>, base_image |-> <<"z">>],
      [image |-> <<>>],
      [repo |-> <<"a">>, image |-> <<"m">>, dependent_jobs |-> <<>>] }

Tags == {None, <<>>, <<"t">>}

Filters == {None, <<"a">>, <<"b">>}

\* The forests of exactly n jobs with the given fields whose roots are numbered from k on under the
\* path prefix.  Every job carries an opaque payload key "name" whose value
\* is the job's position in the tree: <<i>> for the i-th top-level job,
\* Append(p, j) for the j-th dependent job of the job named p.
RECURSIVE Forests(_, _, _, _)
Forests(fields, n, prefix, k) ==
    IF n = 0 THEN {<<>>}
    ELSE UNION {
           LET name == Append(prefix, k)
               heads == IF m = 1
                        THEN {SetItem(f, "name", name) : f \in fields}
                        ELSE {SetItem(SetItem(f, "name", name), "dependent_jobs", d) :
                                 f \in fields, d \in Forests(fields, m - 1, name, 1)}
           IN  {<<h>> \o rest : h \in heads, rest \in Forests(fields, n - m, prefix, k + 1)}
           : m \in 1..n }

ConfigItems == UNION {Forests(JobFields, n, <<>>, 1) : n \in 0..MaxJobs}

NotRun == <<>>

----------------------------------------------------------------------------
(* The calls *)

Init ==
    /\ config_items \in ConfigItems
    /\ base_image_tag \in Tags
    /\ repo_filter \in Filters
    /\ result = NotRun
    /\ unfiltered = NotRun
    /\ ReplaceIdle
    /\ MainIdle

\* organize_by_levels(config_items, base_image_tag, repo_filter)
Organize ==
    /\ result = NotRun
    /\ result' = organize_by_levels(config_items, base_image_tag, repo_filter)
    /\ UNCHANGED <<config_items, base_image_tag, repo_filter, unfiltered, replace_vars, main_vars>>

\* organize_by_levels(config_items, base_image_tag)
OrganizeUnfiltered ==
    /\ unfiltered = NotRun
    /\ unfiltered' = organize_by_levels(config_items, base_image_tag, None)
    /\ UNCHANGED <<config_items, base_image_tag, repo_filter, result, replace_vars, main_vars>>

Next == Organize \/ OrganizeUnfiltered

Spec == Init /\ [][Next]_vars

----------------------------------------------------------------------------
(* The input tree, read off the nesting of dependent_jobs.  The "name"     *)
(* payload only tells the jobs of one input apart.                         *)

Range(s) == {s[i] : i \in DOMAIN s}

Children(job) ==
    IF "dependent_jobs" \in DOMAIN job THEN Range(job["dependent_jobs"]) ELSE {}

RECURSIVE JobsOf(_)
JobsOf(items) ==
    UNION {{items[i]} \cup (IF "dependent_jobs" \in DOMAIN items[i]
                            THEN JobsOf(items[i]["dependent_jobs"]) ELSE {}) :
              i \in DOMAIN items}

Tree == JobsOf(config_items)

TopLevel == Range(config_items)

Parent(job) == CHOOSE q \in Tree : job \in Children(q)

\* number of dependent_jobs nestings between a job and its top-level ancestor
RECURSIVE Depth(_)
Depth(job) == IF job \in TopLevel THEN 0 ELSE 1 + Depth(Parent(job))

RECURSIVE Ancestors(_)
Ancestors(job) ==
    IF job \in TopLevel THEN {} ELSE {Parent(job)} \cup Ancestors(Parent(job))

RECURSIVE Descendants(_)
Descendants(job) == UNION {{c} \cup Descendants(c) : c \in Children(job)}

\* the jobs in the order of a depth-first, left-to-right traversal that
\* visits a job before its dependent jobs
RECURSIVE Preorder(_)
Preorder(items) ==
    IF items = <<>> THEN <<>>
    ELSE <<Head(items)["name"]>>
         \o (IF "dependent_jobs" \in DOMAIN Head(items)
             THEN Preorder(Head(items)["dependent_jobs"]) ELSE <<>>)
         \o Preorder(Tail(items))

Names(level) == [k \in DOMAIN level |-> level[k]["name"]]

\* every place of a result: <<list index, position in that level>>
Positions(res) == UNION {{<<i - 1, k>> : k \in DOMAIN res[i]} : i \in DOMAIN res}

RecordAt(res, pos) == res[pos[1] + 1][pos[2]]

\* the places where a result holds a copy of the job
CopiesOf(job, res) == {pos \in Positions(res) : RecordAt(res, pos)["name"] = job["name"]}

IsEmittedIn(job, res) == CopiesOf(job, res) # {}

\* the record is the job without dependent_jobs, base_image aside
IsCopyOf(record, job) ==
    /\ DOMAIN record \ {"base_image"} = DOMAIN job \ {"dependent_jobs", "base_image"}
    /\ \A k \in DOMAIN record \ {"base_image"} : record[k] = job[k]

\* the job or one of its ancestors has repo == filter
SelectedBy(job, filter) ==
    \E q \in {job} \cup Ancestors(job) : Get(q, "repo") = filter

----------------------------------------------------------------------------
(* Claims about organize_by_levels *)

\* every job of the tree has exactly one copy, at the index equal to its
\* nesting depth, and there is no other record
OneCopyEach(res) ==
    /\ \A job \in Tree :
          \E pos \in Positions(res) :
              /\ CopiesOf(job, res) = {pos}
              /\ pos[1] = Depth(job)
              /\ IsCopyOf(RecordAt(res, pos), job)
    /\ \A pos \in Positions(res) : \E job \in Tree : pos \in CopiesOf(job, res)

\* C1: with no repo_filter, every job of the tree has exactly one copy in the
\* result, at the index equal to its nesting depth, and the result holds
\* nothing else.
OneCopyAtDepth ==
    /\ unfiltered # NotRun => OneCopyEach(unfiltered)
    /\ (result # NotRun /\ repo_filter = None) => OneCopyEach(result)

OneCopyAtDepthWitness ==
    /\ unfiltered # NotRun
    /\ Cardinality(Tree) = MaxJobs
    /\ \E job \in Tree : Depth(job) = 2 /\ CopiesOf(job, unfiltered) # {}
    /\ \E job \in Tree : Depth(job) = 0 /\ CopiesOf(job, unfiltered) # {}

\* C2: with a repo_filter F, a job is in the result iff its own repo or the
\* repo of one of its ancestors equals F.
FilterInclusion ==
    (result # NotRun /\ repo_filter # None) =>
        \A job \in Tree :
            IsEmittedIn(job, result) <=> SelectedBy(job, repo_filter)

\* a job left out although a dependent job of it matches, that dependent job
\* and a non-matching job below it both emitted
FilterInclusionWitness ==
    /\ result # NotRun
    /\ repo_filter # None
    /\ \E job \in Tree :
          /\ ~IsEmittedIn(job, result)
          /\ \E d \in Descendants(job) :
                /\ Get(d, "repo") = repo_filter
                /\ IsEmittedIn(d, result)
                /\ \E e \in Descendants(d) :
                      Get(e, "repo") # repo_filter /\ IsEmittedIn(e, result)

\* '/' -> '_', character by character
Underscored(image) == [i \in DOMAIN image |-> IF image[i] = "/" THEN "_" ELSE image[i]]

\* the parent's image with '/' as '_', then "--" and the tag iff a tag was
\* supplied
ExpectedBaseImage(image, tag) ==
    IF tag # None /\ tag # <<>>
    THEN Underscored(image) \o <<"-", "-">> \o tag
    ELSE Underscored(image)

\* C3 as stated: every job emitted at a depth greater than 0 has a base_image
\* field, equal to its parent's image with '/' replaced by '_', followed by
\* "--" and the tag iff a tag was supplied.
BaseImageOnEveryDependent ==
    result # NotRun =>
        \A job \in Tree : \A pos \in CopiesOf(job, result) :
            Depth(job) > 0 =>
                /\ "base_image" \in DOMAIN RecordAt(result, pos)
                /\ "image" \in DOMAIN Parent(job)
                /\ RecordAt(result, pos)["base_image"] =
                       ExpectedBaseImage(Parent(job)["image"], base_image_tag)

\* C3 amended: every job emitted at a depth greater than 0 whose parent has a
\* non-empty image has that base_image; the copy of a job whose parent has no
\* image or an empty one gets no base_image: it has the one of the input
\* job, if any.
BaseImageFromParentImage ==
    result # NotRun =>
        \A job \in Tree : \A pos \in CopiesOf(job, result) :
            Depth(job) > 0 =>
                IF "image" \in DOMAIN Parent(job) /\ Parent(job)["image"] # <<>>
                THEN /\ "base_image" \in DOMAIN RecordAt(result, pos)
                     /\ RecordAt(result, pos)["base_image"] =
                            ExpectedBaseImage(Parent(job)["image"], base_image_tag)
                ELSE Get(RecordAt(result, pos), "base_image") = Get(job, "base_image")

\* a dependent job emitted below a parent whose image holds a '/', with a tag
BaseImageFromParentImageWitness ==
    /\ result # NotRun
    /\ base_image_tag = <<"t">>
    /\ \E job \in Tree : \E pos \in CopiesOf(job, result) :
          /\ Depth(job) > 0
          /\ Get(Parent(job), "image") = <<"o", "/", "n">>
          /\ RecordAt(result, pos)["base_image"] = <<"o", "_", "n", "-", "-", "t">>

MaxDepthOf(jobs) == SetMax({Depth(job) : job \in jobs} \cup {0})

\* C4 as stated: for any tag and any filter, the number of levels is
\* 1 + the maximum nesting depth of any job of the input tree.
LevelCountIsTreeDepth ==
    result # NotRun => Len(result) = 1 + MaxDepthOf(Tree)

\* C4 amended: the number of levels is 1 + the maximum nesting depth of the
\* jobs the filter selects (all jobs with no filter; 0 when it selects none).
LevelCountIsSelectedDepth ==
    result # NotRun =>
        Len(result) =
            1 + MaxDepthOf({job \in Tree :
                               repo_filter = None \/ SelectedBy(job, repo_filter)})

\* a filter that selects a top-level job and no job of the deepest level
LevelCountIsSelectedDepthWitness ==
    /\ result # NotRun
    /\ repo_filter # None
    /\ MaxDepthOf(Tree) = 1
    /\ Len(result) = 1
    /\ result[1] # <<>>

EmittedDepths(res) == {Depth(job) : job \in {j \in Tree : IsEmittedIn(j, res)}}

\* C5: the result has one entry for every index from 0 to the greatest depth
\* at which a job was emitted (0 if none), and the entry of a depth at which
\* no job was emitted is an empty list.
Gapless ==
    result # NotRun =>
        /\ DOMAIN result = 1..(1 + SetMax(EmittedDepths(result) \cup {0}))
        /\ \A i \in DOMAIN result :
              (i - 1) \notin EmittedDepths(result) => result[i] = <<>>

\* the filter matches only below depth 0: level 0 is there and empty
GaplessWitness ==
    /\ result # NotRun
    /\ Len(result) = 3
    /\ result[1] = <<>>
    /\ result[2] = <<>>
    /\ result[3] # <<>>

\* C8 as stated: the tree parent of every emitted job that is not a top-level
\* job is emitted at the previous level.
ParentOfEmittedIsEmitted ==
    result # NotRun =>
        \A job \in Tree :
            (IsEmittedIn(job, result) /\ job \notin TopLevel) =>
                \E pos \in CopiesOf(Parent(job), result) : pos[1] = Depth(job) - 1

\* C8 amended: the tree parent of an emitted job that is not a top-level job
\* is emitted at the previous level when there is no filter or the job's own
\* repo differs from the filter.
ParentOfInheritedIsEmitted ==
    result # NotRun =>
        \A job \in Tree :
            ( /\ IsEmittedIn(job, result)
              /\ job \notin TopLevel
              /\ (repo_filter = None \/ Get(job, "repo") # repo_filter) ) =>
                \E pos \in CopiesOf(Parent(job), result) : pos[1] = Depth(job) - 1

\* under a filter, a job that does not match is emitted below a parent
ParentOfInheritedIsEmittedWitness ==
    /\ result # NotRun
    /\ repo_filter # None
    /\ \E job \in Tree :
          /\ IsEmittedIn(job, result)
          /\ job \notin TopLevel
          /\ Get(job, "repo") # repo_filter
          /\ IsEmittedIn(Parent(job), result)

InPreorder(level) ==
    LET InLevel(name) == name \in Range(Names(level))
    IN  Names(level) = SelectSeq(Preorder(config_items), InLevel)

\* C9: within every level, the jobs are in the order of the depth-first,
\* left-to-right traversal that visits a job before its dependent jobs, with
\* and without a filter.
LevelsInPreorder ==
    /\ result # NotRun => \A i \in DOMAIN result : InPreorder(result[i])
    /\ unfiltered # NotRun => \A i \in DOMAIN unfiltered : InPreorder(unfiltered[i])

\* the dependent job of the first top-level job is appended between the two
\* top-level jobs
LevelsInPreorderWitness ==
    /\ result # NotRun
    /\ Len(result) = 2
    /\ Len(result[1]) = 2
    /\ Len(result[2]) = 1
    /\ Children(config_items[1]) # {}

\* C10: each level of the filtered result is a subsequence of the same level
\* of the unfiltered result on the same input and tag, the records equal.
FilteredIsSubsequence ==
    (result # NotRun /\ unfiltered # NotRun) =>
        /\ Len(result) <= Len(unfiltered)
        /\ \A i \in DOMAIN result :
              LET Kept(record) == record \in Range(result[i])
              IN  result[i] = SelectSeq(unfiltered[i], Kept)

\* the filter drops a job and keeps a later one of the same level, which has
\* a base_image
FilteredIsSubsequenceWitness ==
    /\ result # NotRun
    /\ unfiltered # NotRun
    /\ repo_filter # None
    /\ Len(result) >= 2
    /\ Len(result[2]) = 1
    /\ Len(unfiltered[2]) = 2
    /\ result[2][1] = unfiltered[2][2]
    /\ "base_image" \in DOMAIN result[2][1]
    /\ result[1] = <<>>

----------------------------------------------------------------------------
(* Configuration values: what yaml.safe_load returns, each value with the  *)
(* type isinstance sees.  A dict is the sequence of its keys and the       *)
(* sequence of their values, in insertion order.                           *)

Str(chars) == [type |-> "str", str |-> chars]

List(items) == [type |-> "list", list |-> items]

Dict(keys, values) == [type |-> "dict", keys |-> keys, values |-> values]

\* a number, a bool or None
Other(repr) == [type |-> "other", repr |-> repr]

BRANCH_PLACEHOLDER ==
    <<"B", "R", "A", "N", "C", "H", "_",
      "P", "L", "A", "C", "E", "H", "O", "L", "D", "E", "R">>

\* faulty variant: obj.replace("BRANCH_PLACEHOLDER", branch_name, 1)
replace_first_in_str(s, branch) ==
    LET starts == {i \in 1..Len(s) : IsPrefix(BRANCH_PLACEHOLDER, SubSeq(s, i, Len(s)))}
    IN  IF starts = {} THEN s
        ELSE LET first == CHOOSE i \in starts : \A j \in starts : i <= j
             IN  SubSeq(s, 1, first - 1) \o branch
                 \o SubSeq(s, first + Len(BRANCH_PLACEHOLDER), Len(s))

\* line 34
replace_in_str(s, branch) == str_replace(s, BRANCH_PLACEHOLDER, branch)

\* lines 18-36
RECURSIVE replace_branch_placeholder(_, _)
replace_branch_placeholder(value, branch) ==
    IF value.type = "dict"
    THEN Dict(value.keys,
              [i \in DOMAIN value.values |->
                  replace_branch_placeholder(value.values[i], branch)])
    ELSE IF value.type = "list"
    THEN List([i \in DOMAIN value.list |->
                  replace_branch_placeholder(value.list[i], branch)])
    ELSE IF value.type = "str"
    THEN Str(replace_in_str(value.str, branch))
    ELSE value

----------------------------------------------------------------------------
(* Inputs of replace_branch_placeholder *)

\* Greatest number of fragments in a string value.
MaxFragments == 3

Chars(word) ==
    CASE word = "BRANCH_" -> <<"B", "R", "A", "N", "C", "H", "_">>
      [] word = "PLACE" -> <<"P", "L", "A", "C", "E">>
      [] word = "HOLDER" -> <<"H", "O", "L", "D", "E", "R">>
      [] word = "BRANCH_PLACEHOL" ->
             <<"B", "R", "A", "N", "C", "H", "_", "P", "L", "A", "C", "E", "H", "O", "L">>
      [] word = "ANCH_PLACEHOLDER" ->
             <<"A", "N", "C", "H", "_", "P", "L", "A", "C", "E", "H", "O", "L", "D", "E", "R">>
      [] word = "BRANCH_PLACEHOLDER" -> BRANCH_PLACEHOLDER
      [] word = "x" -> <<"x">>
      [] word = "main" -> <<"m", "a", "i", "n">>
      [] word = "DERx" -> <<"D", "E", "R", "x">>
      [] word = "xBR" -> <<"x", "B", "R">>
      [] word = "" -> <<>>

\* pieces of the token, the token, and text outside it
Fragments ==
    {Chars(w) : w \in {"BRANCH_", "PLACE", "HOLDER", "BRANCH_PLACEHOL",
                       "ANCH_PLACEHOLDER", "BRANCH_PLACEHOLDER", "x"}}

RECURSIVE Strings(_)
Strings(n) ==
    IF n = 0 THEN {<<>>}
    ELSE Strings(n - 1) \cup {s \o f : s \in Strings(n - 1), f \in Fragments}

BranchNames ==
    {Chars(w) : w \in {"", "main", "PLACE", "DERx", "xBR", "BRANCH_PLACEHOLDER"}}

\* a string; a list of a string and a number; a mapping whose key is the
\* token, to a list of a mapping, a string and None
ConfigValues ==
    UNION {{ Str(s),
             List(<<Str(s), Other("7")>>),
             Dict(<<"BRANCH_PLACEHOLDER">>,
                  <<List(<<Dict(<<"x">>, <<Str(s)>>), Str(s), Other("None")>>)>>) } :
             s \in Strings(MaxFragments)}

NotReplaced == [type |-> "unset"]

InitReplace ==
    /\ obj \in ConfigValues
    /\ branch_name \in BranchNames
    /\ once = NotReplaced
    /\ twice = NotReplaced
    /\ OrganizeIdle
    /\ MainIdle

\* once = replace_branch_placeholder(obj, branch_name)
ReplaceOnce ==
    /\ once = NotReplaced
    /\ once' = replace_branch_placeholder(obj, branch_name)
    /\ UNCHANGED <<obj, branch_name, twice, organize_vars, main_vars>>

\* twice = replace_branch_placeholder(once, branch_name)
ReplaceTwice ==
    /\ once # NotReplaced
    /\ twice = NotReplaced
    /\ twice' = replace_branch_placeholder(once, branch_name)
    /\ UNCHANGED <<obj, branch_name, once, organize_vars, main_vars>>

NextReplace == ReplaceOnce \/ ReplaceTwice

SpecReplace == InitReplace /\ [][NextReplace]_vars

----------------------------------------------------------------------------
(* Claims about replace_branch_placeholder *)

Contains(s, t) == \E i \in 0..(Len(s) - Len(t)) : SubSeq(s, i + 1, i + Len(t)) = t

\* C6 as stated: for every non-empty branch name that does not contain the
\* token, substituting twice gives what substituting once gives.
Idempotent ==
    ( /\ twice # NotReplaced
      /\ branch_name # <<>>
      /\ ~Contains(branch_name, BRANCH_PLACEHOLDER) ) =>
        twice = once

\* the name can complete a token with the text around a replaced token: it
\* lies inside the token, or begins with an end of it, or ends with a
\* beginning of it
CompletesToken(name) ==
    \/ Contains(BRANCH_PLACEHOLDER, name)
    \/ \E k \in 1..Len(name) :
          /\ k < Len(BRANCH_PLACEHOLDER)
          /\ \/ SubSeq(name, 1, k) =
                    SubSeq(BRANCH_PLACEHOLDER,
                           Len(BRANCH_PLACEHOLDER) - k + 1, Len(BRANCH_PLACEHOLDER))
             \/ SubSeq(name, Len(name) - k + 1, Len(name)) =
                    SubSeq(BRANCH_PLACEHOLDER, 1, k)

\* C6 amended: for every non-empty branch name that does not contain the
\* token, is not a part of the token, does not begin with an end of the token
\* and does not end with a beginning of it, substituting twice gives what
\* substituting once gives.
IdempotentUnlessTokenCompleted ==
    ( /\ twice # NotReplaced
      /\ branch_name # <<>>
      /\ ~Contains(branch_name, BRANCH_PLACEHOLDER)
      /\ ~CompletesToken(branch_name) ) =>
        twice = once

\* two tokens of one string replaced by such a name, inside a mapping
IdempotentUnlessTokenCompletedWitness ==
    /\ twice # NotReplaced
    /\ branch_name = Chars("main")
    /\ obj.type = "dict"
    /\ once # obj
    /\ once.values[1].list[2].str = Chars("main") \o Chars("x") \o Chars("main")
    /\ twice = once

----------------------------------------------------------------------------
(* main: lines 134-203.  The steps of the try block, the except clauses,   *)
(* and the exit.  Opening, creating and writing a file can fail.           *)

\* line 169
max_levels == 4

\* line 171 and line 186
level_file(i) ==
    CASE i = 0 -> "level_0.json"
      [] i = 1 -> "level_1.json"
      [] i = 2 -> "level_2.json"
      [] i = 3 -> "level_3.json"
      [] OTHER -> "level_n.json"

all_levels_file == "all_levels.json"

\* lines 177-180
os_matrix ==
    << [arch |-> "arm64", runner |-> "ubuntu-24.04-arm"],
       [arch |-> "amd64", runner |-> "ubuntu-latest"] >>

\* a Python object as the code sees it where it does not ask for its type
RECURSIVE Untyped(_)
Untyped(value) ==
    IF value.type = "dict"
    THEN [k \in Range(value.keys) |->
             Untyped(value.values[CHOOSE i \in DOMAIN value.keys : value.keys[i] = k])]
    ELSE IF value.type = "list"
    THEN [i \in DOMAIN value.list |-> Untyped(value.list[i])]
    ELSE IF value.type = "str"
    THEN value.str
    ELSE value.repr

\* the job as yaml.safe_load returns it
RECURSIVE JobValue(_)
JobValue(job) ==
    LET Present(k) == k \in DOMAIN job
        keys == SelectSeq(<<"repo", "image", "name", "dependent_jobs">>, Present)
    IN  Dict(keys,
             [i \in DOMAIN keys |->
                 IF keys[i] = "dependent_jobs"
                 THEN List([j \in DOMAIN job[keys[i]] |-> JobValue(job[keys[i]][j])])
                 ELSE IF keys[i] = "name"
                 THEN Other(job[keys[i]])
                 ELSE Str(job[keys[i]])])

\* Greatest number of jobs in the document a run of main reads.
MaxMainJobs == 2

MainJobFields ==
    { [repo |-> <<"a">>, image |-> <<"o", "/">> \o BRANCH_PLACEHOLDER],
      [repo |-> <<"b">>] }

\* an empty document (None), a mapping without 'config', and mappings with
\* a 'config' list
Documents ==
    {Other(None), Dict(<<"jobs">>, <<List(<<>>)>>)}
    \cup {Dict(<<"config">>, <<List([i \in DOMAIN f |-> JobValue(f[i])])>>) :
             f \in UNION {Forests(MainJobFields, n, <<>>, 1) : n \in 0..MaxMainJobs}}

YamlFiles ==
    {[state |-> "missing"], [state |-> "malformed"]}
    \cup {[state |-> "readable", document |-> d] : d \in Documents}

Arguments ==
    [tag : {None, <<"t">>},
     branch : {None, <<>>, <<"m", "a", "i", "n">>},
     repo : {None, <<"a">>},
     output_dir : {None, <<"o", "u", "t">>}]

InitMain ==
    /\ pc = "read_yaml"
    /\ yaml_file \in YamlFiles
    /\ args \in Arguments
    /\ data = Other(None)
    /\ job_levels = <<>>
    /\ level_idx = 0
    /\ files = <<>>
    /\ stdout = <<>>
    /\ stderr = ""
    /\ raised = ""
    /\ exit_status = 0
    /\ OrganizeIdle
    /\ ReplaceIdle

Raise(exception) ==
    /\ pc' = "except"
    /\ raised' = exception

\* what a level file holds once json.dump returned
LevelDocument(jobs) == [complete |-> TRUE, image |-> jobs, os |-> os_matrix]

\* a file opened for writing whose json.dump did not return
Truncated == [complete |-> FALSE]

\* lines 136-137
ReadYaml ==
    /\ pc = "read_yaml"
    /\ IF yaml_file.state = "missing" THEN Raise("FileNotFoundError") /\ UNCHANGED data
       ELSE IF yaml_file.state = "malformed" THEN Raise("YAMLError") /\ UNCHANGED data
       ELSE /\ data' = yaml_file.document
            /\ pc' = "check_config"
            /\ UNCHANGED raised
    /\ UNCHANGED <<yaml_file, args, job_levels, level_idx, files, stdout, stderr,
                   exit_status, organize_vars, replace_vars>>

\* lines 139-141: "config" not in None raises TypeError; sys.exit raises
\* SystemExit, which no except clause of main catches
CheckConfig ==
    /\ pc = "check_config"
    /\ IF data.type # "dict"
       THEN Raise("TypeError") /\ UNCHANGED <<stderr, exit_status>>
       ELSE IF "config" \notin Range(data.keys)
       THEN /\ stderr' = "Error: YAML file must contain a 'config' key"
            /\ exit_status' = 1
            /\ pc' = "exit"
            /\ UNCHANGED raised
       ELSE /\ pc' = "substitute"
            /\ UNCHANGED <<stderr, exit_status, raised>>
    /\ UNCHANGED <<yaml_file, args, data, job_levels, level_idx, files, stdout,
                   organize_vars, replace_vars>>

\* lines 144-145
Substitute ==
    /\ pc = "substitute"
    /\ data' = IF Truthy(args.branch)
               THEN replace_branch_placeholder(data, args.branch)
               ELSE data
    /\ pc' = "organize"
    /\ UNCHANGED <<yaml_file, args, job_levels, level_idx, files, stdout, stderr,
                   raised, exit_status, organize_vars, replace_vars>>

\* line 148
OrganizeLevels ==
    /\ pc = "organize"
    /\ job_levels' = organize_by_levels(Untyped(data)["config"], args.tag, args.repo)
    /\ pc' = "summary"
    /\ UNCHANGED <<yaml_file, args, data, level_idx, files, stdout, stderr,
                   raised, exit_status, organize_vars, replace_vars>>

\* lines 151-163: the summary, one line per level
PrintSummary ==
    /\ pc = "summary"
    /\ stdout' = <<[found |-> Len(job_levels)]>>
                 \o [i \in DOMAIN job_levels |-> [level |-> i - 1, jobs |-> Len(job_levels[i])]]
    /\ pc' = IF Truthy(args.output_dir) THEN "make_output_dir" ELSE "print_json"
    /\ UNCHANGED <<yaml_file, args, data, job_levels, level_idx, files, stderr,
                   raised, exit_status, organize_vars, replace_vars>>

\* lines 164-165
MakeOutputDir ==
    /\ pc = "make_output_dir"
    /\ pc' = "write_level"
    /\ UNCHANGED <<yaml_file, args, data, job_levels, level_idx, files, stdout,
                   stderr, raised, exit_status, organize_vars, replace_vars>>

\* line 165: mkdir raises OSError
MakeOutputDirFails ==
    /\ pc = "make_output_dir"
    /\ Raise("OSError")
    /\ UNCHANGED <<yaml_file, args, data, job_levels, level_idx, files, stdout,
                   stderr, exit_status, organize_vars, replace_vars>>

\* line 173
jobs_of_level(idx) == IF idx < Len(job_levels) THEN job_levels[idx + 1] ELSE <<>>

\* lines 170-183: one turn of the loop
WriteLevel ==
    /\ pc = "write_level"
    /\ level_idx < max_levels
    /\ files' = SetItem(files, level_file(level_idx),
                        LevelDocument(jobs_of_level(level_idx)))
    /\ stdout' = Append(stdout, [wrote |-> Len(jobs_of_level(level_idx)),
                                 to |-> level_file(level_idx)])
    /\ level_idx' = level_idx + 1
    /\ pc' = IF level_idx + 1 < max_levels THEN "write_level" ELSE "write_all_levels"
    /\ UNCHANGED <<yaml_file, args, data, job_levels, stderr, raised, exit_status,
                   organize_vars, replace_vars>>

\* line 174: open raises OSError; the file is not touched
WriteLevelOpenFails ==
    /\ pc = "write_level"
    /\ level_idx < max_levels
    /\ Raise("OSError")
    /\ UNCHANGED <<yaml_file, args, data, job_levels, level_idx, files, stdout,
                   stderr, exit_status, organize_vars, replace_vars>>

\* line 182: json.dump raises (a value json cannot encode, a full disk)
\* after open created or emptied the file
WriteLevelDumpFails ==
    /\ pc = "write_level"
    /\ level_idx < max_levels
    /\ files' = SetItem(files, level_file(level_idx), Truncated)
    /\ \E exception \in {"TypeError", "OSError"} : Raise(exception)
    /\ UNCHANGED <<yaml_file, args, data, job_levels, level_idx, stdout, stderr,
                   exit_status, organize_vars, replace_vars>>

\* lines 186-189, then the end of main
WriteAllLevels ==
    /\ pc = "write_all_levels"
    /\ files' = SetItem(files, all_levels_file, [complete |-> TRUE, levels |-> job_levels])
    /\ stdout' = Append(stdout, [wrote |-> Len(job_levels), to |-> all_levels_file])
    /\ pc' = "exit"
    /\ UNCHANGED <<yaml_file, args, data, job_levels, level_idx, stderr, raised,
                   exit_status, organize_vars, replace_vars>>

\* line 187: open raises OSError
WriteAllLevelsOpenFails ==
    /\ pc = "write_all_levels"
    /\ Raise("OSError")
    /\ UNCHANGED <<yaml_file, args, data, job_levels, level_idx, files, stdout,
                   stderr, exit_status, organize_vars, replace_vars>>

\* line 188: json.dump raises
WriteAllLevelsDumpFails ==
    /\ pc = "write_all_levels"
    /\ files' = SetItem(files, all_levels_file, Truncated)
    /\ \E exception \in {"TypeError", "OSError"} : Raise(exception)
    /\ UNCHANGED <<yaml_file, args, data, job_levels, level_idx, stdout, stderr,
                   exit_status, organize_vars, replace_vars>>

\* lines 192-193, then the end of main
PrintJson ==
    /\ pc = "print_json"
    /\ stdout' = Append(stdout, [json |-> job_levels])
    /\ pc' = "exit"
    /\ UNCHANGED <<yaml_file, args, data, job_levels, level_idx, files, stderr,
                   raised, exit_status, organize_vars, replace_vars>>

\* line 193: json.dumps raises TypeError
PrintJsonFails ==
    /\ pc = "print_json"
    /\ Raise("TypeError")
    /\ UNCHANGED <<yaml_file, args, data, job_levels, level_idx, files, stdout,
                   stderr, exit_status, organize_vars, replace_vars>>

\* lines 195-197
ExceptFileNotFound ==
    /\ pc = "except"
    /\ raised = "FileNotFoundError"
    /\ stderr' = "Error: File not found"
    /\ exit_status' = 1
    /\ pc' = "exit"
    /\ UNCHANGED <<yaml_file, args, data, job_levels, level_idx, files, stdout,
                   raised, organize_vars, replace_vars>>

\* lines 198-200
ExceptYamlError ==
    /\ pc = "except"
    /\ raised = "YAMLError"
    /\ stderr' = "Error parsing YAML"
    /\ exit_status' = 1
    /\ pc' = "exit"
    /\ UNCHANGED <<yaml_file, args, data, job_levels, level_idx, files, stdout,
                   raised, organize_vars, replace_vars>>

\* lines 201-203
ExceptException ==
    /\ pc = "except"
    /\ raised \notin {"FileNotFoundError", "YAMLError"}
    /\ stderr' = "Error"
    /\ exit_status' = 1
    /\ pc' = "exit"
    /\ UNCHANGED <<yaml_file, args, data, job_levels, level_idx, files, stdout,
                   raised, organize_vars, replace_vars>>

NextMain ==
    \/ ReadYaml
    \/ CheckConfig
    \/ Substitute
    \/ OrganizeLevels
    \/ PrintSummary
    \/ MakeOutputDir
    \/ MakeOutputDirFails
    \/ WriteLevel
    \/ WriteLevelOpenFails
    \/ WriteLevelDumpFails
    \/ WriteAllLevels
    \/ WriteAllLevelsOpenFails
    \/ WriteAllLevelsDumpFails
    \/ PrintJson
    \/ PrintJsonFails
    \/ ExceptFileNotFound
    \/ ExceptYamlError
    \/ ExceptException

SpecMain == InitMain /\ [][NextMain]_vars

----------------------------------------------------------------------------
(* Claims about main *)

\* C7: a run that ends in a boundary error exits with a non-zero status and
\* has written none of level_<i>.json and all_levels.json; a run that
\* completes all its steps does not exit with the error status.
ErrorRunWritesNothing ==
    pc = "exit" =>
        IF stderr # ""
        THEN exit_status # 0 /\ DOMAIN files = {}
        ELSE exit_status = 0

====
